---- MODULE Spec2Model ----
(***************************************************************************)
(* Model of the wso2-synapse-parser crate: the single-lookahead recursive  *)
(* descent parser of src/src/lib.rs (struct Parser) over the XmlEvent      *)
(* stream of an xml-rs EventReader, and the Display rendering of the AST   *)
(* of src/src/ast.rs.                                                      *)
(*                                                                         *)
(* The recursion of the parser is unfolded into a call stack of frames.    *)
(* One action is one step of a recognizer between two pulls of the event   *)
(* reader; a call to parse_mediator runs, in the caller's step, up to the  *)
(* first pull of the recognizer it dispatches to.  An error (bail!, ?)     *)
(* unwinds the whole stack in the step that raises it.                     *)
(*                                                                         *)
(* The event reader is the external tokenizer.  A parse runs either over a *)
(* chosen stream, any bounded sequence of events, well formed or not,      *)
(* chosen one pull at a time, or over the events of a rendered Program.    *)
(* `nesting` is a history variable: the parser does not read it.           *)
(***************************************************************************)
EXTENDS Integers, Sequences, FiniteSets, TLC

\* ------------------------------------------------------------------ bounds
\* events a lazily chosen stream delivers before it is exhausted
MaxEvents == 7
\* start tags a lazily chosen stream delivers
MaxStarts == 3
\* attributes on one start tag of a lazily chosen stream
MaxAttrs == 2
\* nodes (sequences, mediators, properties) of a tree that is rendered
MaxSize == 4

\* attribute values of the chosen streams
Values == {"a", "b"}
\* levels of the trees that are rendered
Levels == {"a", "b", "c"}

\* ------------------------------------------------------------------ events
NoneStr == "None"
SynapseNs == "http://ws.apache.org/ns/synapse"

OwnedName(local_name, namespace) ==
    [local_name |-> local_name, namespace |-> namespace]

OwnedName_local(local_name) == OwnedName(local_name, NoneStr)

OwnedAttribute(local_name, value) == [name |-> local_name, value |-> value]

\* Option<XmlEvent>::None
None == [kind |-> "None"]

StartDocument(version, encoding, standalone) ==
    [kind |-> "StartDocument", version |-> version, encoding |-> encoding,
     standalone |-> standalone]

EndDocument == [kind |-> "EndDocument"]

StartElement(name, attributes) ==
    [kind |-> "StartElement", name |-> name, attributes |-> attributes]

EndElement(name) == [kind |-> "EndElement", name |-> name]

Characters == [kind |-> "Characters"]

\* the StartDocument event that parse_progarm skips
SkippedStartDocument == StartDocument("1.0", "UTF-8", NoneStr)

RECURSIVE SeqsOfLen(_, _)
SeqsOfLen(S, n) ==
    IF n = 0 THEN {<<>>}
    ELSE {Append(s, x) : s \in SeqsOfLen(S, n - 1), x \in S}

SeqsUpTo(S, n) == UNION {SeqsOfLen(S, k) : k \in 0..n}

\* the names of the chosen streams: the supported elements, an unsupported
\* one, and the sequence and log elements qualified by the synapse namespace
Names ==
    {OwnedName_local(n) : n \in {"inSequence", "log", "property", "class"}}
    \cup {OwnedName(n, SynapseNs) : n \in {"inSequence", "log"}}

\* the attributes log and property start tags of the chosen streams carry
LogAttributes ==
    {OwnedAttribute("level", v) : v \in Values}
    \cup {OwnedAttribute("category", "ERROR")}
PropertyAttributes ==
    {OwnedAttribute(n, v) : n \in {"name", "value"}, v \in Values}

AttributeLists(name) ==
    CASE name.local_name = "log" -> SeqsUpTo(LogAttributes, MaxAttrs)
      [] name.local_name = "property" -> SeqsUpTo(PropertyAttributes, MaxAttrs)
      [] OTHER -> {<<>>}

\* the events a stream may deliver
XmlEvent ==
    {SkippedStartDocument, StartDocument("1.0", "utf-8", NoneStr),
     StartDocument("1.1", "UTF-8", NoneStr),
     StartDocument("1.0", "UTF-8", "Some(true)"), EndDocument, Characters}
    \cup UNION {{StartElement(n, a) : a \in AttributeLists(n)} : n \in Names}
    \cup {EndElement(n) : n \in Names}

\* --------------------------------------------------------------------- AST
PropertyMediator(name, value) == [name |-> name, value |-> value]
LogMediator(level, properties) == [level |-> level, properties |-> properties]
Mediators_Log(log_mediator) == [tag |-> "Log", log |-> log_mediator]
Mediators_Property(property) == [tag |-> "Property", property |-> property]
InSequence(mediators) == [mediators |-> mediators]
Sequences_InSequence(in_sequence) ==
    [tag |-> "InSequence", in_sequence |-> in_sequence]
AstNode_Sequence(sequence) == [tag |-> "Sequence", sequence |-> sequence]
AstNode_Mediator(mediator) == [tag |-> "Mediator", mediator |-> mediator]
Program(ast_nodes) == [ast_nodes |-> ast_nodes]

\* ------------------------------------------------------------------ results
Ok(value) == [status |-> "Ok", value |-> value]
Err(error) == [status |-> "Err", error |-> error]
Pending == [status |-> "Pending"]

\* one message of an anyhow error chain, outermost context first
Message(text, arg) == [text |-> text, arg |-> arg]
ErrError == Message("error", "")
ErrParsingMediator == Message("error parsing mediator", "")
ErrNotSupportedElement(local_name) ==
    Message("not a supported mediator: element {}", local_name)
ErrNotSupported == Message("not a supported mediator", "")
ErrNoLogLevel == Message("not log level specified", "")
ErrParsingLog == Message("error parsing log mediator", "")

\* ------------------------------------------------------- attribute scans
\* mutant of ScanAttributes: the scan stops at the first match
RECURSIVE ScanAttributes_First(_, _, _)
ScanAttributes_First(attributes, local_name, found) ==
    IF attributes = <<>> THEN found
    ELSE IF Head(attributes).name = local_name THEN Head(attributes).value
    ELSE ScanAttributes_First(Tail(attributes), local_name, found)

\* for attr in attributes { if attr.name.local_name == local_name { found =
\* attr.value.clone() } }: every match overwrites the value found so far
RECURSIVE ScanAttributes(_, _, _)
ScanAttributes(attributes, local_name, found) ==
    IF attributes = <<>> THEN found
    ELSE ScanAttributes(Tail(attributes), local_name,
                        IF Head(attributes).name = local_name
                        THEN Head(attributes).value
                        ELSE found)

\* the level a log start tag gives: String::new() unless an attribute sets it
log_level(attributes) == ScanAttributes(attributes, "level", "")

\* the name and value a property start tag gives
property_name(attributes) == ScanAttributes(attributes, "name", "")
property_value(attributes) == ScanAttributes(attributes, "value", "")

\* ------------------------------------------------------------ recognizers
\* mutant of parse_property: a property without name is an error
parse_property_Strict(event) ==
    IF event.kind = "StartElement" /\ property_name(event.attributes) # ""
    THEN Ok(AstNode_Mediator(Mediators_Property(
             PropertyMediator(property_name(event.attributes),
                              property_value(event.attributes)))))
    ELSE Err(<<ErrError>>)

\* mutant of parse_property: an end tag gives a Property as well
parse_property_AnyElement(event) ==
    IF event.kind = "StartElement"
    THEN Ok(AstNode_Mediator(Mediators_Property(
             PropertyMediator(property_name(event.attributes),
                              property_value(event.attributes)))))
    ELSE IF event.kind = "EndElement"
    THEN Ok(AstNode_Mediator(Mediators_Property(PropertyMediator("", ""))))
    ELSE Err(<<ErrError>>)

\* parse_property up to its pull of the next event: the node it returns on a
\* start tag, the error it bails with on anything else
parse_property(event) ==
    IF event.kind = "StartElement"
    THEN Ok(AstNode_Mediator(Mediators_Property(
             PropertyMediator(property_name(event.attributes),
                              property_value(event.attributes)))))
    ELSE Err(<<ErrError>>)

\* parse_log_mediator up to its pull of the next event: the log node it
\* starts on a start tag, the error it bails with on anything else
parse_log_mediator(event) ==
    IF event.kind = "StartElement"
    THEN Ok(LogMediator(log_level(event.attributes), <<>>))
    ELSE Err(<<ErrNoLogLevel>>)

\* parse_mediator: the recognizer the lookahead dispatches to, or the error
Dispatch(callee) == [status |-> "Call", callee |-> callee]

\* mutant of parse_mediator: the error does not name the element
parse_mediator_Unnamed(event) ==
    IF event.kind \in {"StartElement", "EndElement"}
    THEN CASE event.name.local_name = "log" -> Dispatch("parse_log_mediator")
           [] event.name.local_name = "property" -> Dispatch("parse_property")
           [] OTHER -> Err(<<ErrNotSupported>>)
    ELSE Err(<<ErrNotSupported>>)

parse_mediator(event) ==
    IF event.kind \in {"StartElement", "EndElement"}
    THEN CASE event.name.local_name = "log" -> Dispatch("parse_log_mediator")
           [] event.name.local_name = "property" -> Dispatch("parse_property")
           [] OTHER -> Err(<<ErrNotSupportedElement(event.name.local_name)>>)
    ELSE Err(<<ErrNotSupported>>)

\* mutant of IsInSequenceStart: a log start tag is taken as well
IsInSequenceStart_OrLog(event) ==
    /\ event.kind = "StartElement"
    /\ event.name.local_name \in {"inSequence", "log"}

\* mutant of IsInSequenceStart: every start tag is taken as a sequence
IsInSequenceStart_AnyStart(event) == event.kind = "StartElement"

\* the arm of parse_progarm's match that calls parse_in_sequence
IsInSequenceStart(event) ==
    event.kind = "StartElement" /\ event.name.local_name = "inSequence"

\* in_sequence.mediators.push(mediator)
in_sequence_push(in_sequence, mediator) ==
    InSequence(Append(in_sequence.mediators, mediator))

\* mutant of log_mediator_push: the property is put in front
log_mediator_push_Front(log_mediator, property) ==
    LogMediator(log_mediator.level, <<property>> \o log_mediator.properties)

\* log_mediator.properties.push(property)
log_mediator_push(log_mediator, property) ==
    LogMediator(log_mediator.level, Append(log_mediator.properties, property))

\* mutant of IsSkippedStartDocument: every StartDocument is skipped
IsSkippedStartDocument_AnyStartDocument(event) == event.kind = "StartDocument"

\* the test of parse_progarm's "skip start document event"
IsSkippedStartDocument(event) == event = SkippedStartDocument

\* mutant of IsEndDocument: an empty lookahead ends the document as well
IsEndDocument_OrNone(event) == event \in {EndDocument, None}

\* the loop tests of parse_progarm, parse_in_sequence and parse_log_mediator
IsEndDocument(event) == event = EndDocument
\* mutant of IsInSequenceEnd: only the local name is compared
IsInSequenceEnd_LocalName(event) ==
    event.kind = "EndElement" /\ event.name.local_name = "inSequence"

IsInSequenceEnd(event) == event = EndElement(OwnedName_local("inSequence"))
IsLogEnd(event) == event = EndElement(OwnedName_local("log"))

\* ---------------------------------------------------------------- frames
ProgramFrame(pc, ast_nodes) ==
    [fn |-> "parse_progarm", pc |-> pc, ast_nodes |-> ast_nodes]
InSequenceFrame(pc, in_sequence) ==
    [fn |-> "parse_in_sequence", pc |-> pc, in_sequence |-> in_sequence]
LogFrame(pc, log_mediator) ==
    [fn |-> "parse_log_mediator", pc |-> pc, log_mediator |-> log_mediator]

\* mutant of CallerError: parse_log_mediator adds a context to the error
CallerError_LogContext(frame, error) ==
    CASE frame.fn = "parse_log_mediator" -> <<ErrParsingLog>> \o error
      [] frame.fn = "parse_in_sequence" -> <<ErrParsingMediator>> \o error
      [] OTHER -> error

\* what one caller makes of the error its callee returned
\*   parse_log_mediator: _ => bail!("error parsing log mediator")
\*   parse_in_sequence:  .context("error parsing mediator")?
\*   parse_progarm:      node?
CallerError(frame, error) ==
    CASE frame.fn = "parse_log_mediator" -> <<ErrParsingLog>>
      [] frame.fn = "parse_in_sequence" -> <<ErrParsingMediator>> \o error
      [] OTHER -> error

\* the error parse_progarm returns when `error` is raised under `callers`
\* (innermost caller last)
RECURSIVE Propagate(_, _)
Propagate(callers, error) ==
    IF callers = <<>> THEN error
    ELSE Propagate(SubSeq(callers, 1, Len(callers) - 1),
                   CallerError(callers[Len(callers)], error))

\* -------------------------------------------------------------- rendering
\* The text Display writes, as the sequence of tags it is made of: an open
\* tag <name attr="value" ...>, a close tag </name>, an empty-element tag
\* <name attr="value" ... />.
OpenTag(name, attributes) ==
    [tag |-> "open", name |-> name, attributes |-> attributes]
CloseTag(name) == [tag |-> "close", name |-> name, attributes |-> <<>>]
EmptyTag(name, attributes) ==
    [tag |-> "empty", name |-> name, attributes |-> attributes]

\* mutant of fmt_PropertyMediator: name and value are written crosswise
fmt_PropertyMediator_Swapped(property) ==
    <<EmptyTag("property", <<OwnedAttribute("name", property.value),
                             OwnedAttribute("value", property.name)>>)>>

fmt_PropertyMediator(property) ==
    <<EmptyTag("property", <<OwnedAttribute("name", property.name),
                             OwnedAttribute("value", property.value)>>)>>

\* for property in &self.properties { write!(f, "{}", property)? }
RECURSIVE WriteProperties(_)
WriteProperties(properties) ==
    IF properties = <<>> THEN <<>>
    ELSE fmt_PropertyMediator(Head(properties))
         \o WriteProperties(Tail(properties))

\* mutant of fmt_LogMediator: the close tag is not written
fmt_LogMediator_Unclosed(log_mediator) ==
    <<OpenTag("log", <<OwnedAttribute("level", log_mediator.level)>>)>>
    \o WriteProperties(log_mediator.properties)

fmt_LogMediator(log_mediator) ==
    <<OpenTag("log", <<OwnedAttribute("level", log_mediator.level)>>)>>
    \o WriteProperties(log_mediator.properties)
    \o <<CloseTag("log")>>

fmt_Mediators(mediator) ==
    IF mediator.tag = "Log" THEN fmt_LogMediator(mediator.log)
    ELSE fmt_PropertyMediator(mediator.property)

\* for mediator in &self.mediators { write!(f, "{}", mediator)? }
RECURSIVE WriteMediators(_)
WriteMediators(mediators) ==
    IF mediators = <<>> THEN <<>>
    ELSE fmt_Mediators(Head(mediators)) \o WriteMediators(Tail(mediators))

fmt_InSequence(in_sequence) ==
    <<OpenTag("inSequence", <<>>)>>
    \o WriteMediators(in_sequence.mediators)
    \o <<CloseTag("inSequence")>>

fmt_Sequences(sequence) == fmt_InSequence(sequence.in_sequence)

fmt_AstNode(ast_node) ==
    IF ast_node.tag = "Sequence" THEN fmt_Sequences(ast_node.sequence)
    ELSE fmt_Mediators(ast_node.mediator)

\* for ast_node in &self.ast_nodes { write!(f, "{}", ast_node)? }
RECURSIVE WriteAstNodes(_)
WriteAstNodes(ast_nodes) ==
    IF ast_nodes = <<>> THEN <<>>
    ELSE fmt_AstNode(Head(ast_nodes)) \o WriteAstNodes(Tail(ast_nodes))

fmt_Program(program) == WriteAstNodes(program.ast_nodes)

\* ------------------------------------------------------------ event reader
\* The events the EventReader of Parser::new delivers for a text: an open
\* tag is a StartElement, a close tag an EndElement, an empty-element tag a
\* StartElement followed by its EndElement, all with unqualified names; the
\* StartDocument of a text without declaration comes first and EndDocument
\* last.  A text without any element is an error at the first pull.
TagEvents(t) ==
    CASE t.tag = "open" ->
           <<StartElement(OwnedName_local(t.name), t.attributes)>>
      [] t.tag = "close" -> <<EndElement(OwnedName_local(t.name))>>
      [] OTHER -> <<StartElement(OwnedName_local(t.name), t.attributes),
                    EndElement(OwnedName_local(t.name))>>

RECURSIVE ElementEvents(_)
ElementEvents(text) ==
    IF text = <<>> THEN <<>>
    ELSE TagEvents(Head(text)) \o ElementEvents(Tail(text))

EventReader(text) ==
    IF text = <<>> THEN <<>>
    ELSE <<SkippedStartDocument>> \o ElementEvents(text) \o <<EndDocument>>

\* ----------------------------------------------------- trees to be rendered
Properties == {PropertyMediator("a", "b"), PropertyMediator("b", "a")}

\* the log mediators of `size` nodes
LogsOfSize(size) ==
    {LogMediator(l, ps) : l \in Levels, ps \in SeqsOfLen(Properties, size - 1)}

MediatorsOfSize(size) ==
    {Mediators_Log(l) : l \in LogsOfSize(size)}
    \cup (IF size = 1 THEN {Mediators_Property(p) : p \in Properties} ELSE {})

\* the sequences of mediators of `size` nodes in all
RECURSIVE MediatorSeqsOfSize(_)
MediatorSeqsOfSize(size) ==
    IF size = 0 THEN {<<>>}
    ELSE UNION {{<<m>> \o rest : m \in MediatorsOfSize(k),
                                 rest \in MediatorSeqsOfSize(size - k)}
                : k \in 1..size}

AstNodesOfSize(size) ==
    {AstNode_Sequence(Sequences_InSequence(InSequence(ms)))
       : ms \in MediatorSeqsOfSize(size - 1)}
    \cup {AstNode_Mediator(m) : m \in MediatorsOfSize(size)}

RECURSIVE AstNodeSeqsOfSize(_)
AstNodeSeqsOfSize(size) ==
    IF size = 0 THEN {<<>>}
    ELSE UNION {{<<n>> \o rest : n \in AstNodesOfSize(k),
                                 rest \in AstNodeSeqsOfSize(size - k)}
                : k \in 1..size}

\* every Program of at most MaxSize nodes
Programs == UNION {{Program(ns) : ns \in AstNodeSeqsOfSize(k)} : k \in 0..MaxSize}

\* ------------------------------------------------------------------- state
VARIABLES
    origin,         \* where the events come from: "events" (a chosen stream),
                    \* "tree" (a rendered tree), "reparse" (a rendered result),
                    \* "content" (a rendered tree, no StartDocument in front)
    source_tree,    \* the Program whose rendering is parsed, if any
    event_reader,   \* Parser.event_reader: what the reader has yet to deliver
    current_event,  \* Parser.current_event: the lookahead
    position,       \* the number of events pulled from the reader so far
    stack,          \* the recognizers running, parse_progarm first
    ret,            \* the value the recognizer that just returned gave
    result,         \* what parse_progarm returned
    first_result,   \* what the parse before this one returned, if compared
    nesting         \* history: the start tags pulled and not yet closed

vars == <<origin, source_tree, event_reader, current_event, position, stack,
          ret, result, first_result, nesting>>

NoTree == [none |-> TRUE]

\* parse_progarm has returned
Returned == result.status # "Pending"

Top == stack[Len(stack)]
Callers == SubSeq(stack, 1, Len(stack) - 1)
Running(fn, pc) == stack # <<>> /\ Top.fn = fn /\ Top.pc = pc

\* no event pulled yet
NoneOpen == [open |-> <<>>, ok |-> TRUE]

\* the history after the reader has delivered event e: a start tag is opened,
\* an end tag closes the start tag opened last if that has its local name,
\* and is a mismatch if not; after a mismatch nothing more is recorded
Observe(n, e) ==
    IF ~n.ok THEN n
    ELSE CASE e.kind = "StartElement" -> [n EXCEPT !.open = Append(@, e)]
           [] e.kind = "EndElement" ->
                IF /\ n.open # <<>>
                   /\ n.open[Len(n.open)].name.local_name = e.name.local_name
                THEN [n EXCEPT !.open = SubSeq(@, 1, Len(@) - 1)]
                ELSE [open |-> <<>>, ok |-> FALSE]
           [] OTHER -> n

\* the Parser that Parser::new builds over a reader delivering `events`
NewParser(events) ==
    [current_event |-> IF events = <<>> THEN None ELSE Head(events),
     nesting |-> IF events = <<>> THEN NoneOpen
                 ELSE Observe(NoneOpen, Head(events)),
     event_reader |-> [lazy |-> FALSE,
                       rest |-> IF events = <<>> THEN <<>> ELSE Tail(events),
                       starts |-> 0,
                       exhausted |-> events = <<>>],
     position |-> IF events = <<>> THEN 0 ELSE 1]

\* what self.event_reader.next().ok() can give: the next event, or None once
\* the reader is exhausted or has reported an error
NextEvents ==
    IF event_reader.lazy
    THEN IF event_reader.exhausted \/ position >= MaxEvents
         THEN {None}
         ELSE {e \in XmlEvent : e.kind = "StartElement"
                                  => event_reader.starts < MaxStarts}
              \cup {None}
    ELSE IF event_reader.rest = <<>> THEN {None}
         ELSE {Head(event_reader.rest)}

\* mutant of Pull: the reader is not asked, the lookahead stays
Pull_Stay(e) ==
    /\ e \in NextEvents
    /\ UNCHANGED <<event_reader, current_event, position, nesting>>

\* self.current_event = self.event_reader.next().ok()
Pull(e) ==
    /\ e \in NextEvents
    /\ current_event' = e
    /\ event_reader' =
         [event_reader EXCEPT
            !.rest = IF @ = <<>> THEN <<>> ELSE Tail(@),
            !.starts = IF event_reader.lazy /\ e.kind = "StartElement"
                       THEN @ + 1 ELSE @,
            !.exhausted = @ \/ e = None]
    /\ position' = IF e = None THEN position ELSE position + 1
    /\ nesting' = Observe(nesting, e)

NoPull == UNCHANGED <<event_reader, current_event, position, nesting>>

\* parse_progarm returns Err: `error` was raised under `callers`
Fail(callers, error) ==
    /\ result' = Err(Propagate(callers, error))
    /\ stack' = <<>>
    /\ ret' = Pending
    /\ NoPull

InitEvents ==
    /\ origin = "events"
    /\ source_tree = NoTree
    /\ \E e \in XmlEvent \cup {None} :
         /\ current_event = e
         /\ event_reader =
              [lazy |-> TRUE, rest |-> <<>>,
               starts |-> IF e.kind = "StartElement" THEN 1 ELSE 0,
               exhausted |-> e = None]
         /\ position = IF e = None THEN 0 ELSE 1
         /\ nesting = Observe(NoneOpen, e)

InitTree ==
    /\ origin = "tree"
    /\ source_tree \in Programs
    /\ LET parser == NewParser(EventReader(fmt_Program(source_tree))) IN
         /\ current_event = parser.current_event
         /\ event_reader = parser.event_reader
         /\ position = parser.position
         /\ nesting = parser.nesting

\* Parser::new has run and parse_progarm is entered
Init ==
    /\ InitEvents \/ InitTree
    /\ stack = <<ProgramFrame("start", <<>>)>>
    /\ ret = Pending
    /\ result = Pending
    /\ first_result = Pending

\* ----------------------------------------------------------------- actions
\* parse_progarm: skip start document event
ParseProgramStart ==
    /\ Running("parse_progarm", "start")
    /\ stack' = <<ProgramFrame("loop", Top.ast_nodes)>>
    /\ IF IsSkippedStartDocument(current_event)
       THEN \E e \in NextEvents : Pull(e)
       ELSE NoPull
    /\ UNCHANGED <<origin, source_tree, ret, result, first_result>>

\* parse_progarm: the loop test and the match on the lookahead; the call of
\* parse_in_sequence runs up to its first pull
ParseProgramLoop ==
    /\ Running("parse_progarm", "loop")
    /\ IF IsEndDocument(current_event)
       THEN /\ result' = Ok(Program(Top.ast_nodes))
            /\ stack' = <<>>
            /\ ret' = ret
            /\ NoPull
       ELSE IF IsInSequenceStart(current_event)
            THEN /\ stack' = <<ProgramFrame("ret", Top.ast_nodes),
                               InSequenceFrame("loop", InSequence(<<>>))>>
                 /\ \E e \in NextEvents : Pull(e)
                 /\ UNCHANGED <<ret, result>>
            ELSE Fail(<<>>, <<ErrError>>)
    /\ UNCHANGED <<origin, source_tree, first_result>>

\* parse_progarm: ast_nodes.push(node?)
ParseProgramPush ==
    /\ Running("parse_progarm", "ret")
    /\ stack' = <<ProgramFrame("loop", Append(Top.ast_nodes, ret.value))>>
    /\ ret' = Pending
    /\ NoPull
    /\ UNCHANGED <<origin, source_tree, result, first_result>>

\* self.parse_mediator() called by `caller`, the frame that awaits its
\* result: the dispatch, and the recognizer dispatched to up to its first pull
CallMediator(caller) ==
    LET callers == Append(Callers, caller)
        dispatch == parse_mediator(current_event)
    IN  IF dispatch.status = "Err" THEN Fail(callers, dispatch.error)
        ELSE IF dispatch.callee = "parse_log_mediator"
        THEN LET log == parse_log_mediator(current_event) IN
             IF log.status = "Err" THEN Fail(callers, log.error)
             ELSE /\ stack' = Append(callers, LogFrame("loop", log.value))
                  /\ \E e \in NextEvents : Pull(e)
                  /\ UNCHANGED <<ret, result>>
        ELSE LET property == parse_property(current_event) IN
             IF property.status = "Err" THEN Fail(callers, property.error)
             ELSE /\ stack' = callers
                  /\ ret' = property
                  /\ \E e \in NextEvents : Pull(e)
                  /\ UNCHANGED result

\* parse_in_sequence: the loop test; the close tag is walked past and the
\* sequence returned, anything else goes to parse_mediator
InSequenceLoop ==
    /\ Running("parse_in_sequence", "loop")
    /\ IF IsInSequenceEnd(current_event)
       THEN /\ stack' = Callers
            /\ ret' = Ok(AstNode_Sequence(Sequences_InSequence(Top.in_sequence)))
            /\ \E e \in NextEvents : Pull(e)
            /\ UNCHANGED result
       ELSE CallMediator(InSequenceFrame("ret", Top.in_sequence))
    /\ UNCHANGED <<origin, source_tree, first_result>>

\* parse_in_sequence: the match on the mediator parse_mediator returned
InSequencePush ==
    /\ Running("parse_in_sequence", "ret")
    /\ IF ret.value.tag = "Mediator"
       THEN /\ stack' = Append(Callers, InSequenceFrame("loop",
                   in_sequence_push(Top.in_sequence, ret.value.mediator)))
            /\ ret' = Pending
            /\ UNCHANGED result
            /\ NoPull
       ELSE Fail(Callers, <<ErrParsingMediator>>)
    /\ UNCHANGED <<origin, source_tree, first_result>>

\* parse_log_mediator: the loop test; the close tag is walked past and the
\* log returned, anything else goes to parse_mediator
LogLoop ==
    /\ Running("parse_log_mediator", "loop")
    /\ IF IsLogEnd(current_event)
       THEN /\ stack' = Callers
            /\ ret' = Ok(AstNode_Mediator(Mediators_Log(Top.log_mediator)))
            /\ \E e \in NextEvents : Pull(e)
            /\ UNCHANGED result
       ELSE CallMediator(LogFrame("ret", Top.log_mediator))
    /\ UNCHANGED <<origin, source_tree, first_result>>

\* parse_log_mediator: the match on what parse_mediator returned; a property
\* is pushed and the event after it skipped
LogPush ==
    /\ Running("parse_log_mediator", "ret")
    /\ IF ret.value.tag = "Mediator" /\ ret.value.mediator.tag = "Property"
       THEN /\ stack' = Append(Callers, LogFrame("loop",
                   log_mediator_push(Top.log_mediator,
                                     ret.value.mediator.property)))
            /\ ret' = Pending
            /\ \E e \in NextEvents : Pull(e)
            /\ UNCHANGED result
       ELSE Fail(Callers, <<ErrParsingLog>>)
    /\ UNCHANGED <<origin, source_tree, first_result>>

\* the Program parse_progarm returned is rendered, and a new Parser parses
\* the events of the text
Reparse ==
    /\ origin = "events"
    /\ result.status = "Ok"
    /\ origin' = "reparse"
    /\ source_tree' = result.value
    /\ LET parser == NewParser(EventReader(fmt_Program(result.value))) IN
         /\ current_event' = parser.current_event
         /\ event_reader' = parser.event_reader
         /\ position' = parser.position
         /\ nesting' = parser.nesting
    /\ stack' = <<ProgramFrame("start", <<>>)>>
    /\ ret' = Pending
    /\ result' = Pending
    /\ UNCHANGED first_result

\* the text of a rendered tree is parsed a second time, by a new Parser over
\* a reader that delivers the events of the text without the StartDocument in
\* front; what the first parse returned is kept
ParseContent ==
    /\ origin = "tree"
    /\ Returned
    /\ source_tree.ast_nodes # <<>>
    /\ origin' = "content"
    /\ first_result' = result
    /\ LET parser == NewParser(Tail(EventReader(fmt_Program(source_tree)))) IN
         /\ current_event' = parser.current_event
         /\ event_reader' = parser.event_reader
         /\ position' = parser.position
         /\ nesting' = parser.nesting
    /\ stack' = <<ProgramFrame("start", <<>>)>>
    /\ ret' = Pending
    /\ result' = Pending
    /\ UNCHANGED source_tree

Next ==
    \/ ParseProgramStart
    \/ ParseProgramLoop
    \/ ParseProgramPush
    \/ InSequenceLoop
    \/ InSequencePush
    \/ LogLoop
    \/ LogPush
    \/ Reparse
    \/ ParseContent

Spec == Init /\ [][Next]_vars

\* a step of the parse that is running
ParseStep ==
    \/ ParseProgramStart
    \/ ParseProgramLoop
    \/ ParseProgramPush
    \/ InSequenceLoop
    \/ InSequencePush
    \/ LogLoop
    \/ LogPush

\* parse_progarm, once called, runs on: no step of it waits for anything but
\* the reader, which always answers (an event, or None)
LiveSpec == Spec /\ WF_vars(ParseStep)

\* ================================================================== claims

\* the mediators of every Sequence node of a program
IsSequenceOfLogs(ast_node) ==
    /\ ast_node.tag = "Sequence"
    /\ \A i \in 1..Len(ast_node.sequence.in_sequence.mediators) :
         ast_node.sequence.in_sequence.mediators[i].tag = "Log"

\* a Program as the grammar of the parser shapes it: at least one node, every
\* node a Sequence, every child of a Sequence a Log
IsGrammarShaped(program) ==
    /\ program.ast_nodes # <<>>
    /\ \A i \in 1..Len(program.ast_nodes) : IsSequenceOfLogs(program.ast_nodes[i])

\* C1 as stated: for every Program p, parsing the events of render(p) returns
\* a Program structurally equal to p.
C1_RoundTripAllTrees ==
    (origin = "tree" /\ Returned) => result = Ok(source_tree)

\* C1, amended: for every Program p that has at least one node, whose nodes
\* are all Sequence nodes and whose sequences hold only Log mediators, parsing
\* the events of render(p) returns a Program structurally equal to p.
C1_RoundTripGrammarTrees ==
    (origin = "tree" /\ IsGrammarShaped(source_tree) /\ Returned)
        => result = Ok(source_tree)

\* a parse of a rendered tree with two sequences, one of them holding a log
\* with a property, has returned the tree
C1_Witness ==
    /\ origin = "tree"
    /\ IsGrammarShaped(source_tree)
    /\ Len(source_tree.ast_nodes) = 2
    /\ \E i \in 1..2 :
         LET ms == source_tree.ast_nodes[i].sequence.in_sequence.mediators IN
         ms # <<>> /\ ms[1].log.properties # <<>>
    /\ result = Ok(source_tree)

C3_PropertyEvents(property) ==
    <<StartElement(OwnedName_local("property"),
                   <<OwnedAttribute("name", property.name),
                     OwnedAttribute("value", property.value)>>),
      EndElement(OwnedName_local("property"))>>

RECURSIVE C3_PropertiesEvents(_)
C3_PropertiesEvents(properties) ==
    IF properties = <<>> THEN <<>>
    ELSE C3_PropertyEvents(Head(properties))
         \o C3_PropertiesEvents(Tail(properties))

\* the log elements of one inSequence element, the i-th carrying the level
\* and the property children of logs[i]
RECURSIVE C3_LogsEvents(_)
C3_LogsEvents(logs) ==
    IF logs = <<>> THEN <<>>
    ELSE <<StartElement(OwnedName_local("log"),
                        <<OwnedAttribute("level", Head(logs).log.level)>>)>>
         \o C3_PropertiesEvents(Head(logs).log.properties)
         \o <<EndElement(OwnedName_local("log"))>>
         \o C3_LogsEvents(Tail(logs))

C3_Stream(logs) ==
    <<SkippedStartDocument, StartElement(OwnedName_local("inSequence"), <<>>)>>
    \o C3_LogsEvents(logs)
    \o <<EndElement(OwnedName_local("inSequence")), EndDocument>>

\* the tree is one Sequence node that holds only logs
C3_IsOneSequenceOfLogs ==
    /\ origin = "tree"
    /\ Len(source_tree.ast_nodes) = 1
    /\ IsSequenceOfLogs(source_tree.ast_nodes[1])

C3_Logs == source_tree.ast_nodes[1].sequence.in_sequence.mediators

\* C3: for a stream of one inSequence element that contains n >= 0 log
\* elements, the i-th with a level and k_i >= 0 property children, parse
\* returns a Program of exactly one Sequence node whose mediators are the n
\* Log nodes in document order, the i-th with that level and its k_i
\* properties in document order.  The first conjunct says that the stream
\* parsed is the one the claim describes, the second what parse returns.
C3_TreeInDocumentOrder ==
    C3_IsOneSequenceOfLogs =>
        /\ Running("parse_progarm", "start")
              => <<current_event>> \o event_reader.rest = C3_Stream(C3_Logs)
        /\ Returned
              => result = Ok(Program(<<AstNode_Sequence(Sequences_InSequence(
                                         InSequence(C3_Logs)))>>))

\* a sequence of two logs with different levels, the first with a property,
\* the second without children, has been parsed
C3_Witness ==
    /\ C3_IsOneSequenceOfLogs
    /\ Len(C3_Logs) = 2
    /\ C3_Logs[1].log.level # C3_Logs[2].log.level
    /\ Len(C3_Logs[1].log.properties) = 1
    /\ C3_Logs[2].log.properties = <<>>
    /\ result.status = "Ok"

\* ---- C4
HasMessage(res, message) ==
    /\ res.status = "Err"
    /\ \E i \in 1..Len(res.error) : res.error[i] = message

\* the lookahead is a start tag that is neither log nor property
LooksAtUnsupportedStart ==
    /\ current_event.kind = "StartElement"
    /\ current_event.name.local_name \notin {"log", "property"}

\* C4: whenever the lookahead inside an inSequence body is a start tag whose
\* local name is neither log nor property, parse returns an error that holds
\* the unsupported-mediator error naming that element, and the error stays
\* the result: no Program is returned.
C4_UnsupportedInSequence ==
    [][/\ (Running("parse_in_sequence", "loop") /\ LooksAtUnsupportedStart)
           => HasMessage(result',
                  ErrNotSupportedElement(current_event.name.local_name))
       /\ (result.status = "Err" /\ origin' = origin) => result' = result]_vars

\* parse has failed on a class element in an inSequence body
C4_Witness ==
    /\ result = Err(<<ErrParsingMediator, ErrNotSupportedElement("class")>>)
    /\ current_event.kind = "StartElement"
    /\ current_event.name.local_name = "class"

\* ---- C5
\* C5: whenever the lookahead inside an open log element is a start tag whose
\* name is not property, parse fails and the error surfaced to the caller is
\* the unsupported-mediator error naming the offending element.  (A nested
\* log start tag is dispatched to the log recognizer, which runs on: the
\* formula leaves the step of that case open.)
C5_UnsupportedInLog ==
    [][(/\ Running("parse_log_mediator", "loop")
        /\ current_event.kind = "StartElement"
        /\ current_event.name.local_name # "property")
          => \/ HasMessage(result',
                    ErrNotSupportedElement(current_event.name.local_name))
             \/ current_event.name.local_name = "log"]_vars


\* ---- C6
\* the lookahead at the loop test of an open log element is a close tag other
\* than log's
LooksAtForeignEndInLog ==
    /\ Running("parse_log_mediator", "loop")
    /\ current_event.kind = "EndElement"
    /\ ~IsLogEnd(current_event)

\* the error the claim names: no bail! of the parser raises it
ErrUnbalancedElement(expected) == Message("unbalanced element {}", expected)

C7_IsThreeBareLogs ==
    /\ origin = "tree"
    /\ Len(source_tree.ast_nodes) = 3
    /\ \A i \in 1..3 :
         /\ source_tree.ast_nodes[i].tag = "Mediator"
         /\ source_tree.ast_nodes[i].mediator.tag = "Log"
    /\ \A i, j \in 1..3 :
         i # j => source_tree.ast_nodes[i].mediator.log.level
                    # source_tree.ast_nodes[j].mediator.log.level

\* C7 as stated: a stream whose top level is three consecutive log elements
\* with distinct levels parses into a Program with three Mediator nodes in
\* source order, each keeping its level and properties.
C7_BareMediatorsAccepted ==
    (C7_IsThreeBareLogs /\ Returned) => result = Ok(source_tree)

\* C7, amended: a stream whose top level is three consecutive log elements
\* with distinct levels is rejected: parse fails with "error" at the first
\* log start tag, which stays the lookahead, and returns no Program.
C7_BareMediatorsRejected ==
    (C7_IsThreeBareLogs /\ Returned)
        => /\ result = Err(<<ErrError>>)
           /\ current_event.kind = "StartElement"
           /\ current_event.name.local_name = "log"
           /\ position = 2

\* parse of three bare logs has failed
C7_Witness == C7_IsThreeBareLogs /\ result.status = "Err"

\* ---- C8
HasAttribute(attributes, local_name) ==
    \E i \in 1..Len(attributes) : attributes[i].name = local_name

\* the log recognizer is about to run on a log start tag without level
LogRecognizerRunsWithoutLevel ==
    /\ \/ Running("parse_in_sequence", "loop") /\ ~IsInSequenceEnd(current_event)
       \/ Running("parse_log_mediator", "loop") /\ ~IsLogEnd(current_event)
    /\ current_event.kind = "StartElement"
    /\ current_event.name.local_name = "log"
    /\ ~HasAttribute(current_event.attributes, "level")

\* C8: whenever the log recognizer runs on a log start tag whose attribute
\* list contains no attribute named level, parse fails.
C8_MissingLevelFails ==
    [][LogRecognizerRunsWithoutLevel => result'.status = "Err"]_vars

\* ---- C9
\* the property recognizer is about to run on a property start tag in a log
LooksAtPropertyStartInLog ==
    /\ Running("parse_log_mediator", "loop")
    /\ current_event.kind = "StartElement"
    /\ current_event.name.local_name = "property"

\* C9: for a property start tag inside a log body the recognizer returns a
\* Property whose name is "" when the tag has no name attribute and whose
\* value is "" when it has no value attribute, and parse does not fail.
C9_LenientProperty ==
    [][LooksAtPropertyStartInLog
         => /\ result'.status = "Pending"
            /\ ret'.status = "Ok"
            /\ ret'.value.tag = "Mediator"
            /\ ret'.value.mediator.tag = "Property"
            /\ ~HasAttribute(current_event.attributes, "name")
                 => ret'.value.mediator.property.name = ""
            /\ ~HasAttribute(current_event.attributes, "value")
                 => ret'.value.mediator.property.value = ""]_vars

\* a Program has been returned that holds a property without name and one
\* without value
C9_Witness ==
    /\ origin = "events"
    /\ result.status = "Ok"
    /\ \E i \in 1..Len(result.value.ast_nodes) :
         LET ms == result.value.ast_nodes[i].sequence.in_sequence.mediators IN
         \E j \in 1..Len(ms) :
           /\ ms[j].tag = "Log"
           /\ \E k \in 1..Len(ms[j].log.properties) :
                /\ ms[j].log.properties[k].name = ""
                /\ ms[j].log.properties[k].value # ""

\* ---- C10
\* parse_in_sequence returns its sequence in this step
InSequenceReturns ==
    /\ Running("parse_in_sequence", "loop")
    /\ Len(stack') = Len(stack) - 1

\* C10: whenever parse returns a Program the lookahead is EndDocument and a
\* rendered text has been consumed through its end marker; every step pulls
\* at most one event, and a reader of a rendered text hands its events over
\* one by one in order; a sequence returns on its own close tag with the
\* lookahead moved one event past it (or emptied, the reader exhausted).
C10_FullConsumption ==
    /\ [](result.status = "Ok"
            => /\ current_event = EndDocument
               /\ ~event_reader.lazy => event_reader.rest = <<>>)
    /\ [][origin' = origin =>
          /\ position' \in {position, position + 1}
          /\ (~event_reader.lazy /\ position' = position + 1)
               => /\ current_event' = Head(event_reader.rest)
                  /\ event_reader'.rest = Tail(event_reader.rest)
          /\ position' = position
               => current_event' \in {current_event, None}
          /\ InSequenceReturns
               => /\ current_event = EndElement(OwnedName_local("inSequence"))
                  /\ \/ position' = position + 1 /\ current_event' # None
                     \/ position' = position /\ current_event' = None]_vars

\* a Program of two sequences has been returned from a rendered text
C10_Witness ==
    /\ origin = "tree"
    /\ result.status = "Ok"
    /\ Len(result.value.ast_nodes) = 2
    /\ current_event = EndDocument
    /\ position = 6

\* ---- C11
\* a recognizer is at its loop test, or about to reach it without a pull,
\* with an empty lookahead
LooksAtNone == stack # <<>> /\ current_event = None

\* C11: once the event reader is exhausted (or has reported an error) the
\* lookahead is empty and stays empty, and parse never returns a Program: at
\* the loop test of parse_progarm, parse_in_sequence and parse_log_mediator
\* an empty lookahead makes parse return an error (a recognizer that has a
\* callee's value to handle first reaches its loop test without a pull, or
\* fails), and an error stays the result.
C11_TruncatedStreamFails ==
    /\ [](event_reader.exhausted
            => current_event = None /\ result.status # "Ok")
    /\ [][/\ (LooksAtNone /\ Top.pc = "loop") => result'.status = "Err"
          /\ (LooksAtNone /\ Top.pc # "loop")
               => \/ result'.status = "Err"
                  \/ /\ current_event' = None
                     /\ Len(stack') = Len(stack)
                     /\ Top'.pc = "loop"
          /\ (result.status = "Err" /\ origin' = origin) => result' = result]_vars

\* parse has failed on a stream that ended inside a log body, the log start
\* tag being its second and last event
C11_Witness ==
    /\ origin = "events"
    /\ event_reader.exhausted
    /\ current_event = None
    /\ position = 2
    /\ result = Err(<<ErrParsingMediator, ErrParsingLog>>)

\* ---- C12
\* the lookahead at the loop test of parse_progarm is neither EndDocument nor
\* the start tag of inSequence, log or property
LooksAtUnexpectedAtTopLevel ==
    /\ Running("parse_progarm", "loop")
    /\ ~IsEndDocument(current_event)
    /\ ~(/\ current_event.kind = "StartElement"
         /\ current_event.name.local_name \in {"inSequence", "log", "property"})

\* C12: whenever the lookahead at top level is anything other than
\* EndDocument, an inSequence start tag or the start tag of a supported
\* mediator, parse fails with the error of parse_progarm's catch-all arm
\* ("error", without context), no node is appended and no event is pulled.
C12_TopLevelRejection ==
    [][LooksAtUnexpectedAtTopLevel
         => /\ result' = Err(<<ErrError>>)
            /\ stack' = <<>>
            /\ UNCHANGED <<current_event, event_reader, position>>]_vars

\* parse has failed at top level on a close tag that follows a sequence
C12_Witness ==
    /\ origin = "events"
    /\ result = Err(<<ErrError>>)
    /\ current_event.kind = "EndElement"
    /\ position >= 3

Consumes ==
    \/ position' = position + 1
    \/ /\ current_event # None
       /\ current_event' = None
       /\ event_reader'.exhausted

\* C15: every parse that has been started returns, a Program or an error
\* (the streams are finite: a reader gives None forever once it is
\* exhausted); every pass through the loop test of parse_progarm,
\* parse_in_sequence and parse_log_mediator either moves the lookahead past
\* at least one event or makes parse return, and no step moves it backwards.
C15_Termination ==
    /\ (result.status = "Pending") ~> Returned
    /\ [][/\ (stack # <<>> /\ Top.pc = "loop")
               => Consumes \/ result'.status # "Pending"
          /\ origin' = origin => position' >= position]_vars

\* a parse of a chosen stream has returned after pulling every event the
\* stream had, the last of them inside a log body after a property
C15_Witness ==
    /\ origin = "events"
    /\ event_reader.exhausted
    /\ position >= 4
    /\ HasMessage(result, ErrParsingLog)

\* ---- C16
\* the positions of the attributes named local_name
AttributesNamed(attributes, local_name) ==
    {i \in 1..Len(attributes) : attributes[i].name = local_name}

\* the value of the first, and of the last, attribute named local_name in
\* list order; "" if there is none
FirstValue(attributes, local_name) ==
    LET named == AttributesNamed(attributes, local_name) IN
    IF named = {} THEN ""
    ELSE attributes[CHOOSE i \in named : \A j \in named : i <= j].value

LastValue(attributes, local_name) ==
    LET named == AttributesNamed(attributes, local_name) IN
    IF named = {} THEN ""
    ELSE attributes[CHOOSE i \in named : \A j \in named : j <= i].value

\* a recognizer is about to run on a start tag named local_name in the body
\* of a sequence or of a log
RecognizerRunsOnStart(local_name) ==
    /\ \/ Running("parse_in_sequence", "loop") /\ ~IsInSequenceEnd(current_event)
       \/ Running("parse_log_mediator", "loop") /\ ~IsLogEnd(current_event)
    /\ current_event.kind = "StartElement"
    /\ current_event.name.local_name = local_name

LooksAtPlainStartDocument == current_event = StartDocument("1.0", "UTF-8", "None")

\* the first event of the stream is a StartDocument of another version,
\* encoding spelling or standalone value, and parse_progarm is at its loop
LooksAtOtherLeadingStartDocument ==
    /\ Running("parse_progarm", "loop")
    /\ position = 1
    /\ current_event.kind = "StartDocument"
    /\ ~LooksAtPlainStartDocument

\* C17: the parse of the events of a text and the parse of the same events
\* with StartDocument{1.0, UTF-8, no standalone} in front return the same
\* result; for every stream the first step of parse_progarm pulls one event
\* if the lookahead is that StartDocument and none otherwise, and enters the
\* loop with no node in either case; a leading StartDocument of any other
\* kind is not skipped and makes parse fail at top level, no node parsed.
C17_DocumentStart ==
    /\ []((origin = "content" /\ Returned) => result = first_result)
    /\ [][/\ Running("parse_progarm", "start")
               => /\ stack' = <<ProgramFrame("loop", <<>>)>>
                  /\ result' = Pending
                  /\ IF LooksAtPlainStartDocument
                     THEN Consumes
                     ELSE UNCHANGED <<current_event, event_reader, position>>
          /\ LooksAtOtherLeadingStartDocument
               => /\ Top.ast_nodes = <<>>
                  /\ result' = Err(<<ErrError>>)
                  /\ UNCHANGED <<current_event, event_reader, position>>]_vars

\* the events of a rendered sequence with a log and a property have been
\* parsed with and without the StartDocument in front, to the same Program
C17_Witness ==
    /\ origin = "content"
    /\ result = Ok(source_tree)
    /\ first_result = result
    /\ position = 7
    /\ source_tree.ast_nodes[1].sequence.in_sequence.mediators[1].log.properties
         # <<>>

\* ---- C18
\* the texts of a sequence of texts, one after the other
RECURSIVE Concatenation(_)
Concatenation(texts) ==
    IF texts = <<>> THEN <<>>
    ELSE Head(texts) \o Concatenation(Tail(texts))

\* an open tag with its attributes, the renderings of the children, the
\* matching close tag
Element(name, attributes, children) ==
    <<OpenTag(name, attributes)>> \o Concatenation(children)
    \o <<CloseTag(name)>>

PropertyAttributesInOrder(property) ==
    <<OwnedAttribute("name", property.name),
      OwnedAttribute("value", property.value)>>

\* a property as an open/close pair with nothing between
PropertyAsPair(property) ==
    Element("property", PropertyAttributesInOrder(property), <<>>)

\* a property as one empty-element tag
PropertyAsEmptyTag(property) ==
    <<EmptyTag("property", PropertyAttributesInOrder(property))>>

\* the rendering of the nodes in terms of Element, the property rendered by
\* RenderProperty
CanonicalMediator(mediator, RenderProperty(_)) ==
    IF mediator.tag = "Log"
    THEN Element("log", <<OwnedAttribute("level", mediator.log.level)>>,
                 [i \in 1..Len(mediator.log.properties)
                    |-> RenderProperty(mediator.log.properties[i])])
    ELSE RenderProperty(mediator.property)

CanonicalAstNode(ast_node, RenderProperty(_)) ==
    IF ast_node.tag = "Sequence"
    THEN Element("inSequence", <<>>,
                 [i \in 1..Len(ast_node.sequence.in_sequence.mediators)
                    |-> CanonicalMediator(
                            ast_node.sequence.in_sequence.mediators[i],
                            RenderProperty)])
    ELSE CanonicalMediator(ast_node.mediator, RenderProperty)

CanonicalProgram(program, RenderProperty(_)) ==
    Concatenation([i \in 1..Len(program.ast_nodes)
                     |-> CanonicalAstNode(program.ast_nodes[i], RenderProperty)])

\* C18 as stated: every node renders as its open tag with its attributes in
\* stored order, the renderings of its children in stored order, and its
\* matching close tag, a node without children (a property, an empty log or
\* sequence) as the open/close pair with nothing between; a Program renders
\* as the concatenation of its nodes in order.
C18_OpenClosePairs ==
    origin # "events"
        => fmt_Program(source_tree) = CanonicalProgram(source_tree, PropertyAsPair)

\* C18, amended: a sequence and a log render as the open tag (log: with its
\* level), the renderings of the children in stored order and the matching
\* close tag, also when they have no children; a property renders as the one
\* empty-element tag <property name=".." value=".."/>, name before value; a
\* Program renders as the concatenation of its nodes in order, and the text
\* the reader was built over is the text the tree renders to.
C18_CanonicalRendering ==
    origin # "events"
        => /\ fmt_Program(source_tree)
                = CanonicalProgram(source_tree, PropertyAsEmptyTag)
           /\ (origin = "tree" /\ Running("parse_progarm", "start"))
                => LET parser == NewParser(EventReader(
                            CanonicalProgram(source_tree, PropertyAsEmptyTag)))
                   IN  /\ current_event = parser.current_event
                       /\ event_reader.rest = parser.event_reader.rest

\* a tree of an empty sequence and a sequence whose log has a property has
\* been rendered and the events of its text parsed
C18_Witness ==
    /\ origin = "tree"
    /\ Returned
    /\ Len(source_tree.ast_nodes) = 2
    /\ source_tree.ast_nodes[1] =
         AstNode_Sequence(Sequences_InSequence(InSequence(<<>>)))
    /\ source_tree.ast_nodes[2] =
         AstNode_Sequence(Sequences_InSequence(InSequence(
             <<Mediators_Log(LogMediator("c", <<PropertyMediator("a", "b")>>))>>)))

\* ---- C19
\* the values of the attributes named local_name, and "" for none
ValuesNamed(attributes, local_name) ==
    {attributes[i].value : i \in AttributesNamed(attributes, local_name)}
    \cup (IF AttributesNamed(attributes, local_name) = {} THEN {""} ELSE {})

\* parse_mediator is about to run on an end tag named local_name in the body
\* of a sequence or of a log
RecognizerRunsOnEnd(local_name) ==
    /\ \/ Running("parse_in_sequence", "loop") /\ ~IsInSequenceEnd(current_event)
       \/ Running("parse_log_mediator", "loop") /\ ~IsLogEnd(current_event)
    /\ current_event.kind = "EndElement"
    /\ current_event.name.local_name = local_name

\* the error the sequence that encloses the recognizers returns for `error`
\* of a recognizer called from its body, and for any error in a log body
RecognizerError(error) ==
    IF Top.fn = "parse_in_sequence" THEN Err(<<ErrParsingMediator, error>>)
    ELSE Err(<<ErrParsingMediator, ErrParsingLog>>)

\* C19: on a property start tag parse_property pulls exactly one event, the
\* next of the stream, and returns to its caller a Property whose name and
\* value come from that tag's attributes ("" without such an attribute); on
\* a property end tag, dispatched to parse_property, and on a log end tag,
\* dispatched to parse_log_mediator, the recognizer returns an error (which
\* makes parse fail) and the lookahead and the reader are left as they were.
C19_PropertyStep ==
    [][/\ RecognizerRunsOnStart("property")
            => /\ Consumes
               /\ position' <= position + 1
               /\ result' = Pending
               /\ Len(stack') = Len(stack)
               /\ Top'.pc = "ret"
               /\ ret'.status = "Ok"
               /\ ret'.value.tag = "Mediator"
               /\ ret'.value.mediator.tag = "Property"
               /\ ret'.value.mediator.property.name
                    \in ValuesNamed(current_event.attributes, "name")
               /\ ret'.value.mediator.property.value
                    \in ValuesNamed(current_event.attributes, "value")
       /\ RecognizerRunsOnEnd("property")
            => /\ result' = RecognizerError(ErrError)
               /\ UNCHANGED <<current_event, event_reader, position>>
       /\ RecognizerRunsOnEnd("log")
            => /\ result' = RecognizerError(ErrNoLogLevel)
               /\ UNCHANGED <<current_event, event_reader, position>>]_vars

\* a property start tag in a sequence body has been read as a Property and
\* parse has then failed on the property's end tag, which is the lookahead
C19_Witness ==
    /\ origin = "events"
    /\ result = Err(<<ErrParsingMediator, ErrError>>)
    /\ current_event = EndElement(OwnedName_local("property"))
    /\ nesting.ok
    /\ Len(nesting.open) = 1
    /\ position >= 3

====
